---- MODULE Spec2Model ----
(***************************************************************************)
(* MathLogic-Pro: the App component (handleSubmit, handleKeyDown) and the  *)
(* geminiService pipeline (parseProblem, generateProof, solveMathProblem). *)
(* The remote model is the environment: each request is answered by a      *)
(* rejection, by a response without text, by text that is not JSON, or by  *)
(* text that is JSON (whether or not it conforms to the response schema).  *)
(***************************************************************************)
EXTENDS Integers, Sequences, FiniteSets, TLC

\* ---------------------------------------------------------------- bounds
MaxSubmits == 2      \* submit events (form submit, Enter) in one behaviour
MaxQueryLen == 1     \* characters in the textarea
MaxSteps == 2        \* LogicSteps in one Generator answer

\* ---------------------------------------------------------------- values
Undefined == "undefined"

DifficultyEnum == {"easy", "medium", "hard", "IMO"}

CertaintyEnum == {"CERTAIN", "UNSURE"}

\* the characters a query is made of: a blank and a non-blank
QueryChars == {" ", "x"}

\* the step_no values the remote model may put on a step
StepNos == {1, 2}

RECURSIVE SeqsUpTo(_, _)
SeqsUpTo(S, n) ==
  IF n = 0 THEN {<<>>}
  ELSE LET shorter == SeqsUpTo(S, n - 1)
       IN  shorter \cup {Append(s, x) : s \in {t \in shorter : Len(t) = n - 1}, x \in S}

Queries == SeqsUpTo(QueryChars, MaxQueryLen)

\* String.prototype.trim
RECURSIVE trim(_)
trim(q) ==
  IF q = <<>> THEN q
  ELSE IF Head(q) = " " THEN trim(Tail(q))
  ELSE IF q[Len(q)] = " " THEN trim(SubSeq(q, 1, Len(q) - 1))
  ELSE q

\* a variable that holds no ParsedProblem (never assigned)
NoValue == [tag |-> "none", difficulty_estimate |-> Undefined]

\* JSON null
JSNull == [tag |-> "null", difficulty_estimate |-> Undefined]

\* what JSON.parse can yield for the Parser's text: null, or an object whose
\* difficulty_estimate is in the enumeration, outside it, or missing
ParsedProblem ==
  {JSNull} \cup
  {[tag |-> "object", difficulty_estimate |-> d] :
      d \in DifficultyEnum \cup {"trivial", Undefined}}

NoResponse ==
  [tag |-> "none", certainty |-> Undefined, uncertainty_reason |-> Undefined,
   steps |-> <<>>, parsed_problem |-> NoValue]

NullResponse == [NoResponse EXCEPT !.tag = "null"]

\* what JSON.parse can yield for the Generator's text; steps are kept as
\* their step_no values, in order. The answers vary the certainty fields
\* over one step sequence and the step sequence over one certainty
MathResponse ==
  {NullResponse} \cup
  {[tag |-> "object", certainty |-> c, uncertainty_reason |-> u,
    steps |-> <<1>>, parsed_problem |-> NoValue] :
      c \in CertaintyEnum, u \in {Undefined, "", "reason"}} \cup
  {[tag |-> "object", certainty |-> "CERTAIN", uncertainty_reason |-> Undefined,
    steps |-> s, parsed_problem |-> NoValue] :
      s \in SeqsUpTo(StepNos, MaxSteps)}

\* errors
NoError == "none"
FailedToParse == "Failed to parse problem"
FailedToGenerate == "Failed to generate proof"
SyntaxError == "SyntaxError"
TypeError == "TypeError"
RemoteErrors == {"NetworkError", "AuthError"}
GenericMessage ==
  "Failed to process the mathematical query. Please check your connection or try a clearer prompt."

\* the answers of ai.models.generateContent: a rejected promise, or a
\* response whose text is missing/empty, is not JSON, or is JSON
ParserReplies ==
  {[outcome |-> "rejected", error |-> e, value |-> NoValue] : e \in RemoteErrors} \cup
  {[outcome |-> o, error |-> NoError, value |-> NoValue] : o \in {"empty", "invalid"}} \cup
  {[outcome |-> "json", error |-> NoError, value |-> v] : v \in ParsedProblem}

GeneratorReplies ==
  {[outcome |-> "rejected", error |-> e, value |-> NoResponse] : e \in RemoteErrors} \cup
  {[outcome |-> o, error |-> NoError, value |-> NoResponse] : o \in {"empty", "invalid"}} \cup
  {[outcome |-> "json", error |-> NoError, value |-> v] : v \in MathResponse}

\* a request that has not been answered
NoParserReply == [outcome |-> "none", error |-> NoError, value |-> NoValue]

NoGeneratorReply == [outcome |-> "none", error |-> NoError, value |-> NoResponse]

\* ------------------------------------------------------------- the stages
\* parseProblem after its await: throws or returns JSON.parse(response.text)
parseProblem(reply) ==
  IF reply.outcome = "rejected" THEN [threw |-> TRUE, error |-> reply.error, value |-> NoValue]
  ELSE IF reply.outcome = "empty" THEN [threw |-> TRUE, error |-> FailedToParse, value |-> NoValue]
  ELSE IF reply.outcome = "invalid" THEN [threw |-> TRUE, error |-> SyntaxError, value |-> NoValue]
  ELSE [threw |-> FALSE, error |-> NoError, value |-> reply.value]

\* generateProof after its await
generateProof(reply) ==
  IF reply.outcome = "rejected" THEN [threw |-> TRUE, error |-> reply.error, value |-> NoResponse]
  ELSE IF reply.outcome = "empty" THEN [threw |-> TRUE, error |-> FailedToGenerate, value |-> NoResponse]
  ELSE IF reply.outcome = "invalid" THEN [threw |-> TRUE, error |-> SyntaxError, value |-> NoResponse]
  ELSE [threw |-> FALSE, error |-> NoError, value |-> reply.value]

\* ------------------------------------------------------ solveMathProblem
\* the record of a call whose Parser request is out
PendingCall(q) ==
  [query |-> q, status |-> "pending", outstanding |-> {"parser"},
   parserRequests |-> 1, generatorRequests |-> 0,
   parserOutcome |-> "pending", parserResponse |-> NoParserReply,
   generatorOutcome |-> "none", generatorResponse |-> NoGeneratorReply,
   parsedProblem |-> NoValue, generatorInput |-> NoValue,
   result |-> NoResponse, error |-> NoError]

\* a fan-out: both requests are issued at once, the Generator without a ParsedProblem
solveMathProblem_FanOut(q) ==
  [PendingCall(q) EXCEPT !.outstanding = {"parser", "generator"},
                         !.generatorRequests = 1, !.generatorOutcome = "pending"]

\* a call of solveMathProblem up to its first await: the Parser request is out
solveMathProblem(q) == PendingCall(q)

\* the Generator is invoked whether or not the Parser threw
solveAfterParser_GeneratesAnyway(call, reply) ==
  LET r == parseProblem(reply)
  IN  [call EXCEPT !.outstanding = {"generator"},
                   !.parserOutcome = IF r.threw THEN "failed" ELSE "ok",
                   !.parserResponse = reply,
                   !.parsedProblem = r.value, !.generatorInput = r.value,
                   !.generatorRequests = @ + 1, !.generatorOutcome = "pending"]

\* the call resumes with the Parser's answer: the catch block rethrows the
\* error, or generateProof(parsedProblem) issues the Generator request
solveAfterParser(call, reply) ==
  LET r == parseProblem(reply)
  IN  IF r.threw
      THEN [call EXCEPT !.outstanding = {}, !.parserOutcome = "failed",
                        !.parserResponse = reply,
                        !.status = "rejected", !.error = r.error]
      ELSE [call EXCEPT !.outstanding = {"generator"}, !.parserOutcome = "ok",
                        !.parserResponse = reply,
                        !.parsedProblem = r.value, !.generatorInput = r.value,
                        !.generatorRequests = @ + 1, !.generatorOutcome = "pending"]

\* a call that returns result
Returned(call, reply, result) ==
  [call EXCEPT !.outstanding = {}, !.generatorOutcome = "ok",
               !.generatorResponse = reply,
               !.status = "resolved", !.result = result]

\* a call that rethrows what generateProof threw, or the TypeError of
\* setting a property on null
Thrown(call, reply) ==
  LET r == generateProof(reply)
  IN  IF r.threw
      THEN [call EXCEPT !.outstanding = {}, !.generatorOutcome = "failed",
                        !.generatorResponse = reply,
                        !.status = "rejected", !.error = r.error]
      ELSE [call EXCEPT !.outstanding = {}, !.generatorOutcome = "ok",
                        !.generatorResponse = reply,
                        !.status = "rejected", !.error = TypeError]

\* generateProof throws, or hands back null
Fails(reply) == generateProof(reply).threw \/ generateProof(reply).value.tag = "null"

\* the parsed problem is not attached to the result
solveAfterGenerator_NoAttach(call, reply) ==
  IF Fails(reply) THEN Thrown(call, reply)
  ELSE Returned(call, reply, generateProof(reply).value)

\* the uncertainty_reason is lost on the way
solveAfterGenerator_DropsReason(call, reply) ==
  IF Fails(reply) THEN Thrown(call, reply)
  ELSE Returned(call, reply,
         [generateProof(reply).value EXCEPT !.parsed_problem = call.parsedProblem,
                                            !.uncertainty_reason = Undefined])

RECURSIVE Insert(_, _)
Insert(x, s) ==
  IF s = <<>> THEN <<x>>
  ELSE IF x <= Head(s) THEN <<x>> \o s
  ELSE <<Head(s)>> \o Insert(x, Tail(s))

RECURSIVE SortByStepNo(_)
SortByStepNo(s) == IF s = <<>> THEN s ELSE Insert(Head(s), SortByStepNo(Tail(s)))

\* the steps are sorted by step_no before the result is returned
solveAfterGenerator_SortsSteps(call, reply) ==
  IF Fails(reply) THEN Thrown(call, reply)
  ELSE Returned(call, reply,
         [generateProof(reply).value EXCEPT !.parsed_problem = call.parsedProblem,
                                            !.steps = SortByStepNo(@)])

\* the catch block throws a new error in place of the one it caught
solveAfterGenerator_Wraps(call, reply) ==
  LET r == generateProof(reply)
  IN  IF r.threw
      THEN [call EXCEPT !.outstanding = {}, !.generatorOutcome = "failed",
                        !.generatorResponse = reply,
                        !.status = "rejected", !.error = "Gemini API Error"]
      ELSE IF r.value.tag = "null"
      THEN [call EXCEPT !.outstanding = {}, !.generatorOutcome = "ok",
                        !.generatorResponse = reply,
                        !.status = "rejected", !.error = TypeError]
      ELSE [call EXCEPT !.outstanding = {}, !.generatorOutcome = "ok",
                        !.generatorResponse = reply,
                        !.status = "resolved",
                        !.result = [r.value EXCEPT !.parsed_problem = call.parsedProblem]]

\* the call resumes with the Generator's answer: rethrow, or attach the
\* parsed problem (a TypeError when the result is null) and return
solveAfterGenerator(call, reply) ==
  IF Fails(reply) THEN Thrown(call, reply)
  ELSE Returned(call, reply,
         [generateProof(reply).value EXCEPT !.parsed_problem = call.parsedProblem])

\* no call has settled yet
NoCall == [PendingCall(<<>>) EXCEPT !.status = "none", !.outstanding = {},
                                         !.parserRequests = 0, !.parserOutcome = "none"]

\* ----------------------------------------------------------- ResponseCard
TabOption == {"PROOF", "JSON", "PYTHON"}

\* the rendered children of steps.map, sorted by step_no first
LogicTrace_Sorted(r) ==
  [i \in 1..Len(r.steps) |->
     [key |-> SortByStepNo(r.steps)[i], step_no |-> SortByStepNo(r.steps)[i]]]

\* steps.map((step) => <div key={step.step_no}> ... {step.step_no} ...): one
\* child per step, in the order of the array
LogicTrace(r) ==
  [i \in 1..Len(r.steps) |-> [key |-> r.steps[i], step_no |-> r.steps[i]]]

\* the length of the longest common prefix of two child lists, by key
RECURSIVE SameKeyPrefix(_, _)
SameKeyPrefix(old, new) ==
  IF old = <<>> \/ new = <<>> \/ Head(old).key # Head(new).key THEN 0
  ELSE 1 + SameKeyPrefix(Tail(old), Tail(new))

\* the old children that no deletion reaches when the remaining old children
\* are looked up by key: of several with one key the map keeps the last
Shadowed(rest) ==
  SelectSeq([i \in 1..Len(rest) |-> [at |-> i, child |-> rest[i]]],
            LAMBDA e : \E j \in (e.at + 1)..Len(rest) : rest[j].key = e.child.key)

\* React's update of a keyed child list: the new children in their order;
\* children are matched in place while the keys agree, the others by key
Reconcile(old, new) ==
  LET n == SameKeyPrefix(old, new)
      restOld == SubSeq(old, n + 1, Len(old))
      left == Shadowed(restOld)
  IN  IF n = Len(new) \/ n = Len(old) THEN new
      ELSE new \o [i \in 1..Len(left) |-> left[i].child]

\* JSON.stringify of the steps array: its tokens
RECURSIVE JSONstringifyItems(_)
JSONstringifyItems(s) ==
  IF s = <<>> THEN <<>>
  ELSE IF Len(s) = 1 THEN <<ToString(s[1])>>
  ELSE <<ToString(s[1]), ",">> \o JSONstringifyItems(Tail(s))

JSONstringify(s) == <<"[">> \o JSONstringifyItems(s) \o <<"]">>

\* the number a token is the text of
ParseNumber(tok) == CHOOSE n \in StepNos : ToString(n) = tok

\* JSON.parse of the tokens of an array of numbers
JSONparse(text) ==
  LET items == SelectSeq(SubSeq(text, 2, Len(text) - 1), LAMBDA t : t # ",")
  IN  [i \in 1..Len(items) |-> ParseNumber(items[i])]

\* ------------------------------------------------------------------ state
VARIABLES
  query,           \* useState(''): the textarea's text
  loading,         \* useState(false)
  response,        \* useState(null): NoResponse is null
  error,           \* useState(null): NoError is null
  renderedLoading, \* the loading value captured by the handlers of the last render
  calls,           \* the solveMathProblem calls in flight, oldest first
  lastSettled,     \* the call of the latest accepted submission once it settled, as its caller saw it
  submitEvents,    \* submit events delivered so far
  lastSubmit,      \* the last submit event: was it accepted, and the calls in flight when it came
  activeTab,       \* ResponseCard's useState(TabOption.PROOF)
  trace,           \* the rendered children of the logic trace list
  lastAccepted     \* the latest accepted submission: its query, and what it found on display

vars == <<query, loading, response, error, renderedLoading, calls, lastSettled,
          submitEvents, lastSubmit, activeTab, trace, lastAccepted>>

ui == <<query, loading, response, error, renderedLoading, activeTab, trace>>

\* App renders <ResponseCard response={response} />
Mounted == response # NoResponse /\ ~loading /\ ~renderedLoading

Init ==
  /\ query = <<>>
  /\ loading = FALSE
  /\ response = NoResponse
  /\ error = NoError
  /\ renderedLoading = FALSE
  /\ calls = <<>>
  /\ lastSettled = NoCall
  /\ submitEvents = 0
  /\ lastSubmit = [accepted |-> FALSE, inFlight |-> 0, blank |-> TRUE]
  /\ activeTab = "PROOF"
  /\ trace = <<>>
  /\ lastAccepted = [query |-> <<>>, replaced |-> "none"]

\* ---------------------------------------------------------------- actions
\* onChange: setQuery(e.target.value)
SetQuery(q) ==
  /\ q # query
  /\ query' = q
  /\ trace' = IF Mounted /\ activeTab = "JSON"
              THEN Reconcile(trace, LogicTrace(response))
              ELSE trace
  /\ UNCHANGED <<loading, response, error, renderedLoading, calls, lastSettled,
                 submitEvents, lastSubmit, activeTab, lastAccepted>>

\* the guard forgets the loading flag
handleSubmitAccepts_IgnoresLoading(q, isLoading) == trim(q) # <<>>

\* the guard of handleSubmit, on the values its closure captured
handleSubmitAccepts(q, isLoading) == ~(trim(q) = <<>> \/ isLoading)

\* what the page shows of the last submission
OnDisplay ==
  IF response # NoResponse THEN "response"
  ELSE IF error # NoError THEN "error"
  ELSE "none"

\* setError(null) is missing: an old error outlives the new submission
handleSubmit_KeepsError ==
  /\ submitEvents < MaxSubmits
  /\ submitEvents' = submitEvents + 1
  /\ lastSubmit' = [accepted |-> handleSubmitAccepts(query, renderedLoading),
                    inFlight |-> Len(calls), blank |-> trim(query) = <<>>]
  /\ IF handleSubmitAccepts(query, renderedLoading)
     THEN /\ loading' = TRUE
          /\ renderedLoading' = TRUE
          /\ response' = NoResponse
          /\ calls' = Append(calls, solveMathProblem(query))
          /\ lastSettled' = NoCall
          /\ activeTab' = "PROOF"
          /\ trace' = <<>>
          /\ lastAccepted' = [query |-> query, replaced |-> OnDisplay]
          /\ UNCHANGED <<query, error>>
     ELSE UNCHANGED <<query, loading, response, error, renderedLoading, calls, lastSettled,
                      activeTab, trace, lastAccepted>>

\* handleSubmit up to its await; the state updates are flushed before the
\* next event is delivered
handleSubmit ==
  /\ submitEvents < MaxSubmits
  /\ submitEvents' = submitEvents + 1
  /\ lastSubmit' = [accepted |-> handleSubmitAccepts(query, renderedLoading),
                    inFlight |-> Len(calls), blank |-> trim(query) = <<>>]
  /\ IF handleSubmitAccepts(query, renderedLoading)
     THEN /\ loading' = TRUE
          /\ renderedLoading' = TRUE
          /\ error' = NoError
          /\ response' = NoResponse
          /\ calls' = Append(calls, solveMathProblem(query))
          /\ lastSettled' = NoCall
          /\ activeTab' = "PROOF"
          /\ trace' = <<>>
          /\ lastAccepted' = [query |-> query, replaced |-> OnDisplay]
          /\ UNCHANGED query
     ELSE UNCHANGED <<query, loading, response, error, renderedLoading, calls, lastSettled,
                      activeTab, trace, lastAccepted>>

\* the form's onSubmit
FormSubmit == handleSubmit

\* onKeyDown: Enter without Shift submits, any other key does nothing here
handleKeyDown(key, shiftKey) ==
  IF key = "Enter" /\ ~shiftKey THEN handleSubmit ELSE UNCHANGED vars

KeyDown == \E key \in {"Enter", "a"}, shiftKey \in BOOLEAN : handleKeyDown(key, shiftKey)

RemoveAt(s, i) == SubSeq(s, 1, i - 1) \o SubSeq(s, i + 1, Len(s))

\* the catch block shows the message of the error it caught
handleSettled_ShowsCause(call) ==
  /\ IF call.status = "resolved"
     THEN /\ response' = call.result
          /\ UNCHANGED error
     ELSE /\ error' = call.error
          /\ UNCHANGED response
  /\ loading' = FALSE

\* setLoading(false) sits in the try block, not in a finally
handleSettled_NoFinally(call) ==
  IF call.status = "resolved"
  THEN /\ response' = call.result
       /\ loading' = FALSE
       /\ UNCHANGED error
  ELSE /\ error' = GenericMessage
       /\ UNCHANGED <<response, loading>>

\* handleSubmit after its await: try / catch / finally
handleSettled(call) ==
  /\ IF call.status = "resolved"
     THEN /\ response' = call.result
          /\ UNCHANGED error
     ELSE /\ error' = GenericMessage
          /\ UNCHANGED response
  /\ loading' = FALSE

\* a call moves on; when it settled, its handleSubmit continues in the same
\* turn of the event loop
Resume(i, call) ==
  IF call.status = "pending"
  THEN /\ calls' = [calls EXCEPT ![i] = call]
       /\ UNCHANGED <<query, loading, response, error, renderedLoading, lastSettled,
                      submitEvents, lastSubmit, activeTab, trace, lastAccepted>>
  ELSE /\ calls' = RemoveAt(calls, i)
       /\ lastSettled' = call
       /\ handleSettled(call)
       /\ UNCHANGED <<query, renderedLoading, submitEvents, lastSubmit, activeTab, trace,
                      lastAccepted>>

\* the Parser request of call i is answered
ParserReply ==
  \E i \in 1..Len(calls), reply \in ParserReplies :
    /\ "parser" \in calls[i].outstanding
    /\ Resume(i, solveAfterParser(calls[i], reply))

\* the Generator request of call i is answered
GeneratorReply ==
  \E i \in 1..Len(calls), reply \in GeneratorReplies :
    /\ "generator" \in calls[i].outstanding
    /\ Resume(i, solveAfterGenerator(calls[i], reply))

\* React renders the state set after an await
Render ==
  /\ renderedLoading # loading
  /\ renderedLoading' = loading
  /\ activeTab' = "PROOF"
  /\ trace' = <<>>
  /\ UNCHANGED <<query, loading, response, error, calls, lastSettled, submitEvents, lastSubmit,
                 lastAccepted>>

\* a click on a tab of the card: the logic trace list is mounted with the
\* JSON tab and unmounted with the others
SetActiveTab(tab) ==
  /\ Mounted
  /\ tab # activeTab
  /\ activeTab' = tab
  /\ trace' = IF tab = "JSON" THEN LogicTrace(response) ELSE <<>>
  /\ UNCHANGED <<query, loading, response, error, renderedLoading, calls, lastSettled,
                 submitEvents, lastSubmit, lastAccepted>>

Next ==
  \/ \E q \in Queries : SetQuery(q)
  \/ FormSubmit
  \/ KeyDown
  \/ ParserReply
  \/ GeneratorReply
  \/ Render
  \/ \E tab \in TabOption : SetActiveTab(tab)

Spec == Init /\ [][Next]_vars

\* every remote call is answered in the end: the promise of
\* ai.models.generateContent resolves or rejects
FairSpec == Spec /\ WF_vars(ParserReply) /\ WF_vars(GeneratorReply)

TypeOK ==
  /\ query \in Queries
  /\ loading \in BOOLEAN
  /\ renderedLoading \in BOOLEAN
  /\ submitEvents \in 0..MaxSubmits
  /\ Len(calls) <= MaxSubmits
  /\ activeTab \in TabOption

\* ----------------------------------------------------------------- claims
\* the calls there are: those in flight and the one that settled last
AllCalls == {calls[i] : i \in 1..Len(calls)} \cup {lastSettled}

\* the answers on which a stage fails
FailingOutcomes == {"rejected", "empty", "invalid"}

\* C1: when the Parser stage fails (remote error, no text, text that is not
\* JSON), solveMathProblem raises and no Generator request is issued.
C1_NoGeneratorAfterParserFailure ==
  \A c \in AllCalls :
    c.parserResponse.outcome \in FailingOutcomes =>
      /\ c.status = "rejected"
      /\ c.error # NoError
      /\ c.generatorRequests = 0
      /\ c.generatorOutcome = "none"
      /\ "generator" \notin c.outstanding

\* C1 witness: a call settled on a Parser request the remote rejected
C1_Witness ==
  /\ lastSettled.parserResponse.outcome = "rejected"
  /\ lastSettled.status = "rejected"
  /\ ~loading

\* C2: when the Generator's text is not JSON, solveMathProblem raises
\* "Failed to generate proof", returns no MathResponse, and the ParsedProblem
\* of stage 1 reaches the caller on no value.
C2_InvalidGeneratorJsonRaisesFailedToGenerate ==
  lastSettled.generatorResponse.outcome = "invalid" =>
    /\ lastSettled.status = "rejected"
    /\ lastSettled.error = FailedToGenerate
    /\ lastSettled.result = NoResponse
    /\ response = NoResponse

\* C3: each Parser failure cause is signalled as "Failed to parse problem",
\* with no partial ParsedProblem and no second request.
C3_ParserFailuresAreFailedToParse ==
  \A c \in AllCalls :
    c.parserResponse.outcome \in FailingOutcomes =>
      /\ c.status = "rejected"
      /\ c.error = FailedToParse
      /\ c.parsedProblem = NoValue
      /\ c.parserRequests = 1

\* C4: in every call at most one Parser and one Generator request are
\* issued, never both outstanding, the Generator request only after the
\* Parser succeeded, and its input is the ParsedProblem the Parser returned.
C4_SequentialUnrepeatedRequests ==
  \A c \in AllCalls :
    /\ c.parserRequests <= 1
    /\ c.generatorRequests <= 1
    /\ Cardinality(c.outstanding) <= 1
    /\ c.generatorRequests = 1 =>
         /\ c.parserRequests = 1
         /\ "parser" \notin c.outstanding
         /\ ~parseProblem(c.parserResponse).threw
         /\ c.parserResponse.outcome = "json"
         /\ c.generatorInput = c.parserResponse.value
    /\ c.generatorRequests = 0 => c.generatorInput = NoValue

\* C4 witness: the Generator request is outstanding, the Parser's is answered
C4_Witness ==
  \E i \in 1..Len(calls) :
    /\ calls[i].outstanding = {"generator"}
    /\ calls[i].generatorInput.tag = "object"
    /\ calls[i].generatorInput.difficulty_estimate = "IMO"

\* C5: the error the caller of solveMathProblem observes is the error the
\* failing stage raised, and a failing run returns no MathResponse.
C5_FailuresPropagateUnchanged ==
  /\ parseProblem(lastSettled.parserResponse).threw =>
       /\ lastSettled.status = "rejected"
       /\ lastSettled.error = parseProblem(lastSettled.parserResponse).error
  /\ generateProof(lastSettled.generatorResponse).threw =>
       /\ lastSettled.status = "rejected"
       /\ lastSettled.error = generateProof(lastSettled.generatorResponse).error
  /\ lastSettled.status = "rejected" =>
       /\ lastSettled.result = NoResponse
       /\ lastSettled.error # NoError
  /\ lastSettled.status = "resolved" => lastSettled.error = NoError

\* C5 witness: the Generator request was rejected and the call threw that error
C5_Witness ==
  /\ lastSettled.generatorResponse.outcome = "rejected"
  /\ lastSettled.error = "AuthError"
  /\ lastSettled.status = "rejected"

\* the Parser's value conforms to parsedProblemSchema's difficulty_estimate
ConformsToParsedProblemSchema(v) ==
  v.tag = "object" /\ v.difficulty_estimate \in DifficultyEnum

\* C6 as stated: a successful run on a non-empty input returns a
\* MathResponse whose parsed_problem is non-null and whose
\* difficulty_estimate is one of easy, medium, hard, IMO.
C6_ParsedProblemNonNullWithEnumDifficulty ==
  (lastSettled.status = "resolved" /\ lastSettled.query # <<>>) =>
    /\ lastSettled.result.parsed_problem.tag = "object"
    /\ lastSettled.result.parsed_problem.difficulty_estimate \in DifficultyEnum

\* C6 amended: a successful run returns a MathResponse whose parsed_problem
\* is the value parsed from the Parser's text for this query, unchecked; it
\* is non-null with an enumerated difficulty_estimate whenever that text
\* conforms to the Parser's schema.
C6_ParsedProblemIsParserOutput ==
  (lastSettled.status = "resolved" /\ lastSettled.query # <<>>) =>
    /\ lastSettled.parserResponse.outcome = "json"
    /\ lastSettled.result.parsed_problem = lastSettled.parserResponse.value
    /\ lastSettled.result.parsed_problem # NoValue
    /\ ConformsToParsedProblemSchema(lastSettled.parserResponse.value) =>
         /\ lastSettled.result.parsed_problem.tag = "object"
         /\ lastSettled.result.parsed_problem.difficulty_estimate \in DifficultyEnum

\* C6 witness: a run succeeded and shows the Parser's "hard" problem
C6_Witness ==
  /\ lastSettled.status = "resolved"
  /\ lastSettled.result.parsed_problem.difficulty_estimate = "hard"
  /\ response = lastSettled.result

\* uncertainty_reason is non-empty exactly when certainty is UNSURE
CertaintyRule(r) ==
  /\ r.certainty = "UNSURE" => r.uncertainty_reason \notin {Undefined, ""}
  /\ r.certainty = "CERTAIN" => r.uncertainty_reason \in {Undefined, ""}

\* C7 as stated: in every returned MathResponse uncertainty_reason is present
\* and non-empty if certainty is UNSURE, absent or empty if it is CERTAIN.
C7_UncertaintyReasonIffUnsure ==
  lastSettled.status = "resolved" => CertaintyRule(lastSettled.result)

\* C7 amended: the returned MathResponse carries certainty and
\* uncertainty_reason exactly as the Generator's JSON gave them, so the rule
\* holds of it exactly when it holds of the Generator's output.
C7_CertaintyIsGeneratorOutput ==
  lastSettled.status = "resolved" =>
    /\ lastSettled.result.certainty = lastSettled.generatorResponse.value.certainty
    /\ lastSettled.result.uncertainty_reason =
         lastSettled.generatorResponse.value.uncertainty_reason
    /\ CertaintyRule(lastSettled.result) <=> CertaintyRule(lastSettled.generatorResponse.value)

\* C7 witness: a returned response that is UNSURE and says why
C7_Witness ==
  /\ lastSettled.status = "resolved"
  /\ lastSettled.result.certainty = "UNSURE"
  /\ lastSettled.result.uncertainty_reason = "reason"

\* the step_no values are 1, 2, ..., n and there is at least one step
StepRule(steps) == steps # <<>> /\ \A i \in 1..Len(steps) : steps[i] = i

\* C8 as stated: in every returned MathResponse the steps are non-empty and
\* their step_no values are exactly 1, 2, ..., n in sequence order.
C8_StepsNumberedFromOne ==
  lastSettled.status = "resolved" => StepRule(lastSettled.result.steps)

\* C8 amended: the returned MathResponse carries the Generator's steps
\* unchanged and in order, so they are non-empty and numbered 1..n exactly
\* when the Generator's output is.
C8_StepsAreGeneratorOutput ==
  lastSettled.status = "resolved" =>
    /\ lastSettled.result.steps = lastSettled.generatorResponse.value.steps
    /\ StepRule(lastSettled.result.steps) <=>
         StepRule(lastSettled.generatorResponse.value.steps)

\* C8 witness: a returned response whose steps are out of order
C8_Witness ==
  /\ lastSettled.status = "resolved"
  /\ lastSettled.result.steps = <<2, 1>>

\* C9: at most one solveMathProblem call is in flight, and a submit event
\* that arrives while a request is outstanding starts no request and
\* changes no state.
C9_SingleCallInFlight ==
  /\ [](Len(calls) <= 1)
  /\ [][(submitEvents' # submitEvents /\ Len(calls) > 0) =>
          UNCHANGED <<ui, calls, lastSettled>>]_vars

\* C9 witness: a submit event with a non-blank query came while a call was
\* in flight and was not accepted
C9_Witness ==
  /\ lastSubmit.inFlight = 1
  /\ ~lastSubmit.accepted
  /\ ~lastSubmit.blank
  /\ Len(calls) = 1

\* C10: whatever failure solveMathProblem propagates, the presentation
\* state gets the one generic message, no response, and nothing that tells
\* the stage or the cause.
C10_GenericErrorOnAnyFailure ==
  /\ error \in {NoError, GenericMessage}
  /\ lastSettled.status = "rejected" =>
       /\ error = GenericMessage
       /\ response = NoResponse
       /\ ~loading
  /\ lastSettled.status = "resolved" => error = NoError

\* C10 witness: the Generator answered without text and the generic message shows
C10_Witness ==
  /\ lastSettled.status = "rejected"
  /\ lastSettled.error = FailedToGenerate
  /\ error = GenericMessage

\* the step_no values the logic trace view shows, top to bottom
RenderedStepNos == [i \in 1..Len(trace) |-> trace[i].step_no]

\* the text of the raw JSON view
RawJson == JSONstringify(response.steps)

\* C11: the steps of the returned MathResponse, the steps read back from its
\* serialized MachineReadableJson, and the steps the logic trace view shows
\* are the sequence the Generator produced, element by element.
C11_StepOrderPreserved ==
  /\ lastSettled.status = "resolved" =>
       /\ lastSettled.result.steps = lastSettled.generatorResponse.value.steps
       /\ JSONparse(JSONstringify(lastSettled.result.steps)) =
            lastSettled.generatorResponse.value.steps
  /\ (Mounted /\ activeTab = "JSON") =>
       /\ lastSettled.status = "resolved"
       /\ RenderedStepNos = lastSettled.generatorResponse.value.steps
       /\ JSONparse(RawJson) = lastSettled.generatorResponse.value.steps
  /\ (Mounted /\ activeTab # "JSON") => trace = <<>>

\* C11 witness: the logic trace shows two steps that carry the same step_no,
\* after the card was rendered again
C11_Witness ==
  /\ Mounted
  /\ activeTab = "JSON"
  /\ RenderedStepNos = <<2, 2>>
  /\ query # lastSettled.query

\* exactly one of response and error is set, as the call ended
OneOutcome ==
  /\ (response # NoResponse) # (error # NoError)
  /\ (response # NoResponse) <=> (lastSettled.status = "resolved")

\* no call goes back from its Generator request to a Parser request
NoWayBack ==
  \A i \in 1..Len(calls) :
    (calls[i].outstanding = {"generator"} /\ i <= Len(calls')) =>
      /\ "parser" \notin calls'[i].outstanding
      /\ calls'[i].parserRequests = calls[i].parserRequests

\* a settled submission keeps its outcome until another one is accepted
OutcomeStays ==
  (lastSettled.status # "none" /\ lastSettled' # NoCall) =>
    /\ lastSettled' = lastSettled
    /\ response' = response
    /\ error' = error
    /\ loading' = loading

\* C12: when every remote call is answered, an accepted submission ends
\* with loading false and exactly one of response and error set; a call
\* never goes back from generating to parsing and a terminal outcome stays.
C12_ReachesOneTerminalOutcome ==
  /\ loading ~> (~loading /\ lastSettled.status # "none" /\ OneOutcome)
  /\ [](lastSettled.status # "none" => (~loading /\ OneOutcome))
  /\ [][NoWayBack /\ OutcomeStays]_vars

\* C12 witness: a submission went through parsing and generating and ended
\* in a failure of the Generator
C12_Witness ==
  /\ lastSettled.status = "rejected"
  /\ lastSettled.parserOutcome = "ok"
  /\ lastSettled.generatorOutcome = "failed"
  /\ ~loading
  /\ error = GenericMessage
  /\ response = NoResponse

\* C13: the presentation state never holds both a response and an error;
\* while loading is true both are unset; what is shown once loading ended
\* is the outcome of the most recent accepted submission.
C13_OutcomeOfLatestSubmission ==
  /\ ~(response # NoResponse /\ error # NoError)
  /\ loading => (response = NoResponse /\ error = NoError)
  /\ (~loading /\ OnDisplay # "none") =>
       /\ calls = <<>>
       /\ lastSettled.status # "none"
       /\ lastSettled.query = lastAccepted.query
       /\ response = lastSettled.result
       /\ (error # NoError) <=> (lastSettled.status = "rejected")

\* C13 witness: a submission accepted while an error was on display ended
\* with a result, and the error is gone
C13_Witness ==
  /\ lastAccepted.replaced = "error"
  /\ ~loading
  /\ response # NoResponse
  /\ error = NoError
====
